---- MODULE Spec2Model ----
(***************************************************************************)
(* Model of app/models/meta_prompt_generator.py: the MetaPromptGenerator   *)
(* (dataset loading, per-user lookup, rendering of the meta-prompt), of    *)
(* simple_chat_endpoint of app/main.py, and of the MockCollection and the  *)
(* connection globals of app/database/mongodb.py.                          *)
(*                                                                         *)
(* A Python dict is a function whose DOMAIN is its key set; the empty dict *)
(* is the empty function.  A text is the sequence of its lines, i.e. the   *)
(* string split at "\n"; the empty string is the empty sequence.           *)
(***************************************************************************)
EXTENDS Integers, Sequences, FiniteSets, TLC

VARIABLES
    dirExists,   \* os.path.exists(data_dir)
    files,       \* the six CSV files of the data directory
    loadPc,      \* position of __init__/_load_datasets
    dfs,         \* the attributes self.<table>_df assigned so far
    calls,       \* per caller: position and locals of generate_meta_prompt
    fmtPc,       \* position of a direct call of _format_meta_prompt
    fmtArgs,     \* its six arguments
    fmtOut,      \* its return value
    fmtLog,      \* the arguments and results of the renderer calls made so far
    chat,        \* per request: position and locals of simple_chat_endpoint
    mock,        \* a MockCollection and the outcome of the last call on it
    mongo        \* the globals of database/mongodb.py and the tasks using them

\* the state of the meta-prompt generator
gen == <<dirExists, files, loadPc, dfs, calls, fmtPc, fmtArgs, fmtOut>>

\* the state of the other components
ext == <<fmtLog, chat, mock, mongo>>

vars == <<dirExists, files, loadPc, dfs, calls, fmtPc, fmtArgs, fmtOut, fmtLog, chat, mock, mongo>>

-----------------------------------------------------------------------------
(* Python primitives *)

EmptyDict == << >>

\* bool(d) of a dict
Truthy(d) == DOMAIN d # {}

\* d.get(k, default)
Get(d, k, default) == IF k \in DOMAIN d THEN d[k] ELSE default

\* sep.join(strs) for a list of strings
RECURSIVE JoinStr(_, _)
JoinStr(strs, sep) ==
    IF Len(strs) = 0 THEN ""
    ELSE IF Len(strs) = 1 THEN strs[1]
    ELSE strs[1] \o sep \o JoinStr(Tail(strs), sep)

\* "\n\n".join(sections), each section being "\n".join(lines): between two
\* sections the text holds one empty line
RECURSIVE JoinSections(_)
JoinSections(sections) ==
    IF Len(sections) = 0 THEN << >>
    ELSE IF Len(sections) = 1 THEN sections[1]
    ELSE sections[1] \o <<"">> \o JoinSections(Tail(sections))

-----------------------------------------------------------------------------
(* MetaPromptGenerator._format_meta_prompt *)

RendererFallback == <<"New financial advisor user with limited context information available.">>

DemoSection(demographics) ==
    << "## Demographic Profile",
       "Age: " \o Get(demographics, "age", "Unknown"),
       "Gender: " \o Get(demographics, "gender", "Unknown"),
       "Occupation: " \o Get(demographics, "occupation", "Unknown"),
       "Annual Income: $" \o Get(demographics, "annual_income", "Unknown"),
       "Education: " \o Get(demographics, "education_level", "Unknown"),
       "Location: " \o Get(demographics, "city", "Unknown") \o ", "
                    \o Get(demographics, "state", "Unknown") >>

AccountLines(account) ==
    << "Account Type: " \o Get(account, "account_type", "Unknown"),
       "Account Balance: $" \o Get(account, "account_balance", "Unknown"),
       "Savings Balance: $" \o Get(account, "savings_balance", "Unknown"),
       "Account Opened: " \o Get(account, "account_opening_date", "Unknown") >>

\* the credit lines with the lines of absent keys left out
CreditLinesSkippingAbsent(credit) ==
    (IF "credit_score" \in DOMAIN credit
        THEN <<"Credit Score: " \o credit["credit_score"]>> ELSE << >>)
    \o (IF "outstanding_debt" \in DOMAIN credit
        THEN <<"Outstanding Debt: $" \o credit["outstanding_debt"]>> ELSE << >>)
    \o (IF "credit_utilization" \in DOMAIN credit
        THEN <<"Credit Utilization: " \o credit["credit_utilization"] \o "%">> ELSE << >>)
    \o (IF "payment_history" \in DOMAIN credit
        THEN <<"Payment History: " \o credit["payment_history"]>> ELSE << >>)

CreditLines(credit) ==
    << "Credit Score: " \o Get(credit, "credit_score", "Unknown"),
       "Outstanding Debt: $" \o Get(credit, "outstanding_debt", "Unknown"),
       "Credit Utilization: " \o Get(credit, "credit_utilization", "Unknown") \o "%",
       "Payment History: " \o Get(credit, "payment_history", "Unknown") >>

FinanceSection(account, credit) ==
    <<"## Financial Profile">>
        \o (IF Truthy(account) THEN AccountLines(account) ELSE << >>)
        \o (IF Truthy(credit) THEN CreditLines(credit) ELSE << >>)

InvestSection(investments) ==
    << "## Investment Profile",
       "Risk Tolerance: " \o Get(investments, "risk_tolerance", "Unknown"),
       "Investment Goals: " \o Get(investments, "investment_goals", "Unknown"),
       "Current Investments: $" \o Get(investments, "current_investments", "Unknown"),
       "Retirement Savings: $" \o Get(investments, "retirement_savings", "Unknown"),
       "Investment Preferences: " \o Get(investments, "investment_preferences", "Unknown") >>

TransSection(transaction_insights) ==
    << "## Spending Patterns",
       "Monthly Spending: $" \o Get(transaction_insights, "monthly_spending", "Unknown"),
       "Top Spending Categories: "
           \o JoinStr(Get(transaction_insights, "top_categories", <<"Unknown">>), ", "),
       "Recent Large Transactions: " \o Get(transaction_insights, "large_transactions", "None") >>
        \o (IF Get(transaction_insights, "recurring_payments", "") # ""
            THEN <<"Recurring Payments: " \o Get(transaction_insights, "recurring_payments", "None")>>
            ELSE << >>)

SentimentSection(sentiment_insights) ==
    << "## Social Media Insights",
       "Overall Sentiment: " \o Get(sentiment_insights, "overall_sentiment", "Unknown"),
       "Financial Interests: "
           \o JoinStr(Get(sentiment_insights, "financial_interests", <<"Unknown">>), ", "),
       "Recent Concerns: " \o Get(sentiment_insights, "financial_concerns", "None") >>

\* the sections with the financial header rendered even without account and credit
SectionsWithPlaceholder(demographics, account, credit, investments, transaction_insights, sentiment_insights) ==
    (IF Truthy(demographics) THEN <<DemoSection(demographics)>> ELSE << >>)
        \o <<FinanceSection(account, credit)>>
        \o (IF Truthy(investments) THEN <<InvestSection(investments)>> ELSE << >>)
        \o (IF Truthy(transaction_insights) THEN <<TransSection(transaction_insights)>> ELSE << >>)
        \o (IF Truthy(sentiment_insights) THEN <<SentimentSection(sentiment_insights)>> ELSE << >>)

\* the sections with the investment profile put before the financial profile
SectionsInvestmentFirst(demographics, account, credit, investments, transaction_insights, sentiment_insights) ==
    (IF Truthy(demographics) THEN <<DemoSection(demographics)>> ELSE << >>)
        \o (IF Truthy(investments) THEN <<InvestSection(investments)>> ELSE << >>)
        \o (IF Truthy(account) \/ Truthy(credit) THEN <<FinanceSection(account, credit)>> ELSE << >>)
        \o (IF Truthy(transaction_insights) THEN <<TransSection(transaction_insights)>> ELSE << >>)
        \o (IF Truthy(sentiment_insights) THEN <<SentimentSection(sentiment_insights)>> ELSE << >>)

\* the list `sections` just before the join
Sections(demographics, account, credit, investments, transaction_insights, sentiment_insights) ==
    (IF Truthy(demographics) THEN <<DemoSection(demographics)>> ELSE << >>)
        \o (IF Truthy(account) \/ Truthy(credit) THEN <<FinanceSection(account, credit)>> ELSE << >>)
        \o (IF Truthy(investments) THEN <<InvestSection(investments)>> ELSE << >>)
        \o (IF Truthy(transaction_insights) THEN <<TransSection(transaction_insights)>> ELSE << >>)
        \o (IF Truthy(sentiment_insights) THEN <<SentimentSection(sentiment_insights)>> ELSE << >>)

\* the renderer leaving a trace of how many times it has run in its text
FormatMetaPromptCounting(demographics, account, credit, investments, transaction_insights, sentiment_insights) ==
    JoinSections(Sections(demographics, account, credit, investments,
                          transaction_insights, sentiment_insights))
        \o <<"Prompt " \o ToString(Len(fmtLog) + 1)>>

\* the renderer without its "no data" sentence
FormatMetaPromptNoFallback(demographics, account, credit, investments, transaction_insights, sentiment_insights) ==
    JoinSections(Sections(demographics, account, credit, investments,
                          transaction_insights, sentiment_insights))

FormatMetaPrompt(demographics, account, credit, investments, transaction_insights, sentiment_insights) ==
    LET meta_prompt == JoinSections(Sections(demographics, account, credit, investments,
                                             transaction_insights, sentiment_insights))
    IN  IF meta_prompt = << >> THEN RendererFallback ELSE meta_prompt

-----------------------------------------------------------------------------
(* The data directory and pandas *)

\* the six tables, in the order _load_datasets reads them
Tables == <<"demographic", "account", "transaction", "credit", "investment", "sentiment">>

TableSet == {Tables[i] : i \in DOMAIN Tables}

Users == {"u1", "u2"}

Fields(t) ==
    CASE t = "demographic" -> {"age", "gender", "occupation", "annual_income",
                                "education_level", "city", "state"}
      [] t = "account"     -> {"account_type", "account_balance", "savings_balance",
                                "account_opening_date"}
      [] t = "credit"      -> {"credit_score", "outstanding_debt", "credit_utilization",
                                "payment_history"}
      [] t = "investment"  -> {"risk_tolerance", "investment_goals", "current_investments",
                                "retirement_savings", "investment_preferences"}
      [] t = "transaction" -> {"transaction_id", "amount", "category", "month"}
      [] t = "sentiment"   -> {"post_id", "sentiment", "topic"}

FullColumns(t) == {"user_id"} \cup Fields(t)

\* the cell of column k in the i-th data line of a CSV file
FirstLine ==
    [age |-> "34", gender |-> "F", occupation |-> "Engineer", annual_income |-> "95000",
     education_level |-> "Masters", city |-> "Austin", state |-> "TX",
     account_type |-> "Checking", account_balance |-> "1200", savings_balance |-> "8000",
     account_opening_date |-> "2019-03-01",
     credit_score |-> "710", outstanding_debt |-> "5000", credit_utilization |-> "30",
     payment_history |-> "Good",
     risk_tolerance |-> "Medium", investment_goals |-> "Retirement",
     current_investments |-> "15000", retirement_savings |-> "40000",
     investment_preferences |-> "ETFs",
     amount |-> 100, category |-> "Food", month |-> 1,
     sentiment |-> "negative", topic |-> "debt"]

SecondLine ==
    [age |-> "51", gender |-> "M", occupation |-> "Teacher", annual_income |-> "60000",
     education_level |-> "Bachelors", city |-> "Reno", state |-> "NV",
     account_type |-> "Savings", account_balance |-> "300", savings_balance |-> "150",
     account_opening_date |-> "2021-07-15",
     credit_score |-> "640", outstanding_debt |-> "900", credit_utilization |-> "55",
     payment_history |-> "Fair",
     risk_tolerance |-> "Low", investment_goals |-> "Income",
     current_investments |-> "2000", retirement_savings |-> "7000",
     investment_preferences |-> "Bonds",
     amount |-> 100, category |-> "Food", month |-> 2,
     sentiment |-> "positive", topic |-> "investing"]

LaterLine ==
    [age |-> "27", gender |-> "F", occupation |-> "Nurse", annual_income |-> "48000",
     education_level |-> "Associate", city |-> "Boise", state |-> "ID",
     account_type |-> "Checking", account_balance |-> "75", savings_balance |-> "0",
     account_opening_date |-> "2023-01-09",
     credit_score |-> "580", outstanding_debt |-> "12000", credit_utilization |-> "80",
     payment_history |-> "Poor",
     risk_tolerance |-> "High", investment_goals |-> "Growth",
     current_investments |-> "500", retirement_savings |-> "0",
     investment_preferences |-> "Stocks",
     amount |-> 50, category |-> "Travel", month |-> 1,
     sentiment |-> "neutral", topic |-> "debt"]

Cell(k, i, u) ==
    IF k = "user_id" THEN u
    ELSE IF k \in {"transaction_id", "post_id"} THEN ToString(i)
    ELSE IF i = 1 THEN FirstLine[k]
    ELSE IF i = 2 THEN SecondLine[k]
    ELSE LaterLine[k]

\* the i-th data line of a file with the given header, for user u
CsvRow(columns, i, u) == [k \in columns |-> Cell(k, i, u)]

\* pd.DataFrame()
EmptyDataFrame == [columns |-> {}, rows |-> << >>]

\* df.empty
IsEmpty(df) == df.columns = {} \/ df.rows = << >>

\* a file of the data directory: absent, unreadable by pd.read_csv, or CSV text
Missing == [kind |-> "missing"]

Unreadable == [kind |-> "unreadable"]

Csv(columns, rows) == [kind |-> "csv", columns |-> columns, rows |-> rows]

IsCsv(f) == f.kind = "csv"

\* pd.read_csv(path) of CSV text
ReadCsv(f) == [columns |-> f.columns, rows |-> f.rows]

\* df[df['user_id'] == user_id]; the caller checks 'user_id' in df.columns
RECURSIVE SelectUser(_, _)
SelectUser(rows, user_id) ==
    IF rows = << >> THEN << >>
    ELSE IF Head(rows)["user_id"] = user_id
         THEN <<Head(rows)>> \o SelectUser(Tail(rows), user_id)
         ELSE SelectUser(Tail(rows), user_id)

-----------------------------------------------------------------------------
(* DataProcessor (app/utils/data_processor.py), after section 4.2 of the   *)
(* specification: two pure functions of the user's rows.                   *)

TopCategoriesCount == 3

TopInterestsCount == 5

\* category names in ascending order
CategoryOrder == <<"Food", "Travel">>

CategoryRank(c) == CHOOSE i \in DOMAIN CategoryOrder : CategoryOrder[i] = c

Prefix(seq, n) == SubSeq(seq, 1, IF Len(seq) < n THEN Len(seq) ELSE n)

RECURSIVE SumAmounts(_)
SumAmounts(rows) ==
    IF rows = << >> THEN 0 ELSE Head(rows)["amount"] + SumAmounts(Tail(rows))

RECURSIVE SumSquares(_)
SumSquares(rows) ==
    IF rows = << >> THEN 0
    ELSE Head(rows)["amount"] * Head(rows)["amount"] + SumSquares(Tail(rows))

CategorySpend(rows, c) == SumAmounts(SelectSeq(rows, LAMBDA r : r["category"] = c))

\* categories by total spend descending, then by name ascending
RECURSIVE RankCategories(_, _)
RankCategories(rows, cats) ==
    IF cats = {} THEN << >>
    ELSE LET best == CHOOSE c \in cats : \A d \in cats :
                         \/ CategorySpend(rows, c) > CategorySpend(rows, d)
                         \/ /\ CategorySpend(rows, c) = CategorySpend(rows, d)
                            /\ CategoryRank(c) <= CategoryRank(d)
         IN  <<best>> \o RankCategories(rows, cats \ {best})

\* amount > mean + 2 * standard deviation, in integers: with n rows of sum S,
\* n*amount - S > 0 and (n*amount - S)^2 > 4 * (n * sum of squares - S^2)
IsLarge(rows, amount) ==
    LET n == Len(rows)
        S == SumAmounts(rows)
        d == n * amount - S
    IN  d > 0 /\ d * d > 4 * (n * SumSquares(rows) - S * S)

\* the (category, amount) pairs seen in at least two distinct months
Recurring(rows) ==
    { p \in {<<rows[i]["category"], rows[i]["amount"]>> : i \in DOMAIN rows} :
        Cardinality({rows[i]["month"] : i \in {j \in DOMAIN rows :
            <<rows[j]["category"], rows[j]["amount"]>> = p}}) >= 2 }

TransactionColumnsNeeded == {"amount", "category", "month"}

\* whether extract_transaction_insights raises
TransactionInsightsRaises(transactions) ==
    \E i \in DOMAIN transactions : ~(TransactionColumnsNeeded \subseteq DOMAIN transactions[i])

ExtractTransactionInsights(transactions) ==
    IF transactions = << >> THEN EmptyDict
    ELSE LET months == {transactions[i]["month"] : i \in DOMAIN transactions}
             cats == {transactions[i]["category"] : i \in DOMAIN transactions}
             large == {i \in DOMAIN transactions : IsLarge(transactions, transactions[i]["amount"])}
             recurring == Recurring(transactions)
         IN  [monthly_spending |-> ToString(SumAmounts(transactions) \div Cardinality(months)),
              top_categories |-> Prefix(RankCategories(transactions, cats), TopCategoriesCount),
              large_transactions |->
                  IF Len(transactions) < 2 \/ large = {} THEN "None"
                  ELSE ToString(Cardinality(large)) \o " above the usual amount",
              recurring_payments |->
                  IF recurring = {} THEN ""
                  ELSE ToString(Cardinality(recurring)) \o " monthly payment(s)"]

FirstSeen(rows, k, v) == CHOOSE i \in DOMAIN rows :
    rows[i][k] = v /\ \A j \in DOMAIN rows : rows[j][k] = v => i <= j

Frequency(rows, k, v) == Cardinality({i \in DOMAIN rows : rows[i][k] = v})

\* the values of column k by frequency descending, then first seen
RECURSIVE RankByFrequency(_, _, _)
RankByFrequency(rows, k, vals) ==
    IF vals = {} THEN << >>
    ELSE LET best == CHOOSE v \in vals : \A w \in vals :
                         \/ Frequency(rows, k, v) > Frequency(rows, k, w)
                         \/ /\ Frequency(rows, k, v) = Frequency(rows, k, w)
                            /\ FirstSeen(rows, k, v) <= FirstSeen(rows, k, w)
         IN  <<best>> \o RankByFrequency(rows, k, vals \ {best})

SentimentColumnsNeeded == {"sentiment", "topic"}

\* whether extract_sentiment_insights raises
SentimentInsightsRaises(sentiment) ==
    \E i \in DOMAIN sentiment : ~(SentimentColumnsNeeded \subseteq DOMAIN sentiment[i])

ExtractSentimentInsights(sentiment) ==
    IF sentiment = << >> THEN EmptyDict
    ELSE LET labels == {sentiment[i]["sentiment"] : i \in DOMAIN sentiment}
             topics == {sentiment[i]["topic"] : i \in DOMAIN sentiment}
             ranked == RankByFrequency(sentiment, "sentiment", labels)
             tied == {l \in labels : Frequency(sentiment, "sentiment", l)
                                       = Frequency(sentiment, "sentiment", ranked[1])}
             negative == SelectSeq(sentiment, LAMBDA r : r["sentiment"] = "negative")
         IN  [overall_sentiment |-> IF "neutral" \in tied THEN "neutral" ELSE ranked[1],
              financial_interests |-> Prefix(RankByFrequency(sentiment, "topic", topics),
                                             TopInterestsCount),
              financial_concerns |->
                  IF negative = << >> THEN "None"
                  ELSE "Worried about " \o JoinStr(RankByFrequency(negative, "topic",
                           {negative[i]["topic"] : i \in DOMAIN negative}), ", ")]

-----------------------------------------------------------------------------
(* MetaPromptGenerator._get_user_data *)

\* df[df['user_id'] == user_id] raises KeyError
LookupRaises(df) == ~IsEmpty(df) /\ "user_id" \notin df.columns

GetUserDataRaises(tabs) == \E t \in TableSet : LookupRaises(tabs[t])

\* the last matching row instead of the first
LastRecord(matching) == matching[Len(matching)]

\* user_rows.iloc[0].to_dict()
FirstRecord(matching) == matching[1]

\* the first row of the table, whoever it belongs to
LookupOneAnyUser(df, user_id) ==
    IF IsEmpty(df) THEN EmptyDict ELSE df.rows[1]

\* the entry of `result` for a table holding at most one record per user
LookupOne(df, user_id) ==
    IF IsEmpty(df) THEN EmptyDict
    ELSE LET matching == SelectUser(df.rows, user_id)
         IN  IF matching = << >> THEN EmptyDict ELSE FirstRecord(matching)

\* the entry of `result` for the transaction and sentiment tables
LookupMany(df, user_id) ==
    IF IsEmpty(df) THEN << >> ELSE SelectUser(df.rows, user_id)

GetUserData(tabs, user_id) ==
    [demographics |-> LookupOne(tabs["demographic"], user_id),
     account      |-> LookupOne(tabs["account"], user_id),
     credit       |-> LookupOne(tabs["credit"], user_id),
     investments  |-> LookupOne(tabs["investment"], user_id),
     transactions |-> LookupMany(tabs["transaction"], user_id),
     sentiment    |-> LookupMany(tabs["sentiment"], user_id)]

NoUserData ==
    [demographics |-> EmptyDict, account |-> EmptyDict, credit |-> EmptyDict,
     investments |-> EmptyDict, transactions |-> << >>, sentiment |-> << >>]

-----------------------------------------------------------------------------
(* MetaPromptGenerator.generate_meta_prompt *)

OrchestratorFallback == <<"Financial advisor user with limited context information available.">>

\* str() of a missing cell, which pandas holds as the float nan
NaN == "nan"

\* ', '.join(items) raises TypeError: an item is not a str
JoinRaises(items) == \E i \in DOMAIN items : items[i] = NaN

FormatRaises(transaction_insights, sentiment_insights) ==
    \/ /\ Truthy(transaction_insights)
       /\ JoinRaises(Get(transaction_insights, "top_categories", <<"Unknown">>))
    \/ /\ Truthy(sentiment_insights)
       /\ JoinRaises(Get(sentiment_insights, "financial_interests", <<"Unknown">>))

Callers == {"c1", "c2"}

IdleCall ==
    [pc |-> "idle", user_id |-> "", user_data |-> NoUserData,
     transaction_insights |-> EmptyDict, sentiment_insights |-> EmptyDict, result |-> << >>]

\* the locals kept on the shared generator object: another call in progress
\* overwrites them
SharedFrame(cs, c) ==
    LET others == {d \in DOMAIN cs : d # c /\ cs[d].pc # "idle"}
    IN  IF others = {} THEN cs[c] ELSE cs[CHOOSE d \in others : TRUE]

\* the frame holding the locals of caller c
Frame(cs, c) == cs[c]

\* no except clause: the exception leaves generate_meta_prompt
Propagate(call) == [call EXCEPT !.pc = "raised"]

\* except Exception: return the fallback text
OnException(call) == [call EXCEPT !.pc = "returned", !.result = OrchestratorFallback]

Call(c, user_id) ==
    /\ loadPc = "ready"
    /\ calls[c].pc = "idle"
    /\ calls' = [calls EXCEPT ![c] = [IdleCall EXCEPT !.pc = "get_user_data", !.user_id = user_id]]
    /\ UNCHANGED <<dirExists, files, loadPc, dfs, fmtPc, fmtArgs, fmtOut, ext>>

StepGetUserData(c) ==
    /\ calls[c].pc = "get_user_data"
    /\ calls' = [calls EXCEPT ![c] =
           IF GetUserDataRaises(dfs) THEN OnException(@)
           ELSE [@ EXCEPT !.pc = "transactions",
                          !.user_data = GetUserData(dfs, Frame(calls, c).user_id)]]
    /\ UNCHANGED <<dirExists, files, loadPc, dfs, fmtPc, fmtArgs, fmtOut, ext>>

StepTransactionInsights(c) ==
    /\ calls[c].pc = "transactions"
    /\ LET transactions == Frame(calls, c).user_data.transactions
       IN  calls' = [calls EXCEPT ![c] =
               IF TransactionInsightsRaises(transactions) THEN OnException(@)
               ELSE [@ EXCEPT !.pc = "sentiment",
                              !.transaction_insights = ExtractTransactionInsights(transactions)]]
    /\ UNCHANGED <<dirExists, files, loadPc, dfs, fmtPc, fmtArgs, fmtOut, ext>>

StepSentimentInsights(c) ==
    /\ calls[c].pc = "sentiment"
    /\ LET sentiment == Frame(calls, c).user_data.sentiment
       IN  calls' = [calls EXCEPT ![c] =
               IF SentimentInsightsRaises(sentiment) THEN OnException(@)
               ELSE [@ EXCEPT !.pc = "format",
                              !.sentiment_insights = ExtractSentimentInsights(sentiment)]]
    /\ UNCHANGED <<dirExists, files, loadPc, dfs, fmtPc, fmtArgs, fmtOut, ext>>

StepFormat(c) ==
    /\ calls[c].pc = "format"
    /\ LET f == Frame(calls, c)
       IN  calls' = [calls EXCEPT ![c] =
               IF FormatRaises(f.transaction_insights, f.sentiment_insights) THEN OnException(@)
               ELSE [@ EXCEPT !.pc = "returned",
                              !.result = FormatMetaPrompt(
                                  f.user_data.demographics, f.user_data.account,
                                  f.user_data.credit, f.user_data.investments,
                                  f.transaction_insights, f.sentiment_insights)]]
    /\ UNCHANGED <<dirExists, files, loadPc, dfs, fmtPc, fmtArgs, fmtOut, ext>>

\* the caller takes the text; the frame is gone
Return(c) ==
    /\ calls[c].pc = "returned"
    /\ calls' = [calls EXCEPT ![c] = IdleCall]
    /\ UNCHANGED <<dirExists, files, loadPc, dfs, fmtPc, fmtArgs, fmtOut, ext>>

\* whether the try block of generate_meta_prompt raises on the tables `tabs`
GenerateRaises(tabs, user_id) ==
    \/ GetUserDataRaises(tabs)
    \/ LET user_data == GetUserData(tabs, user_id)
       IN  \/ TransactionInsightsRaises(user_data.transactions)
           \/ SentimentInsightsRaises(user_data.sentiment)
           \/ FormatRaises(ExtractTransactionInsights(user_data.transactions),
                           ExtractSentimentInsights(user_data.sentiment))

\* generate_meta_prompt(user_id) run from start to end on the tables `tabs`
GenerateMetaPrompt(tabs, user_id) ==
    IF GetUserDataRaises(tabs) THEN OrchestratorFallback
    ELSE LET user_data == GetUserData(tabs, user_id)
         IN  IF \/ TransactionInsightsRaises(user_data.transactions)
                \/ SentimentInsightsRaises(user_data.sentiment)
             THEN OrchestratorFallback
             ELSE LET transaction_insights == ExtractTransactionInsights(user_data.transactions)
                      sentiment_insights == ExtractSentimentInsights(user_data.sentiment)
                  IN  IF FormatRaises(transaction_insights, sentiment_insights)
                      THEN OrchestratorFallback
                      ELSE FormatMetaPrompt(user_data.demographics, user_data.account,
                                            user_data.credit, user_data.investments,
                                            transaction_insights, sentiment_insights)

-----------------------------------------------------------------------------
(* The external ETL step that fills the data directory before startup *)

\* total number of data lines in the directory
MaxRows == 2

\* number of files that are unreadable, hold a header only, or lack a column
MaxIrregular == 1

\* a header as found in a file: complete, or lacking one column
ColumnChoices(t) ==
    {FullColumns(t)} \cup
    {FullColumns(t) \ {k} : k \in
        CASE t = "demographic" -> {"user_id", "annual_income"}
          [] t = "account"     -> {"user_id", "account_balance"}
          [] t = "credit"      -> {"user_id", "credit_score"}
          [] t = "investment"  -> {"user_id", "risk_tolerance"}
          [] t = "transaction" -> {"user_id", "amount"}
          [] t = "sentiment"   -> {"user_id", "sentiment"}}

RowCount(f) == IF IsCsv(f) THEN Len(f.rows) ELSE 0

RECURSIVE TotalRows(_, _)
TotalRows(fs, ts) ==
    IF ts = {} THEN 0
    ELSE LET t == CHOOSE x \in ts : TRUE IN RowCount(fs[t]) + TotalRows(fs, ts \ {t})

Irregular(fs, t) ==
    \/ fs[t] = Unreadable
    \/ /\ IsCsv(fs[t])
       /\ fs[t].rows = << >> \/ fs[t].columns # FullColumns(t)

WithinBounds(fs) ==
    /\ TotalRows(fs, TableSet) <= MaxRows
    /\ Cardinality({t \in TableSet : Irregular(fs, t)}) <= MaxIrregular

EtlWrite(t, fs) ==
    /\ loadPc = "new"
    /\ WithinBounds(fs)
    /\ files' = fs
    /\ dirExists' = TRUE
    /\ UNCHANGED <<loadPc, dfs, calls, fmtPc, fmtArgs, fmtOut, ext>>

\* a new file with one data line
EtlCreateFile(t) ==
    /\ files[t] = Missing
    /\ \E columns \in ColumnChoices(t), u \in Users :
          EtlWrite(t, [files EXCEPT ![t] =
              Csv(columns, <<CsvRow(columns, 1, u)>>)])

\* one more data line in an existing file
EtlAppendRow(t) ==
    /\ IsCsv(files[t])
    /\ \E u \in Users :
          EtlWrite(t, [files EXCEPT ![t].rows =
              Append(@, CsvRow(files[t].columns, Len(@) + 1, u))])

\* a file holding the header line only
EtlCreateHeaderOnly(t) ==
    /\ files[t] = Missing
    /\ EtlWrite(t, [files EXCEPT ![t] = Csv(FullColumns(t), << >>)])

\* a file pd.read_csv cannot read (zero bytes, wrong encoding, no permission)
EtlCreateUnreadable(t) ==
    /\ files[t] = Missing
    /\ EtlWrite(t, [files EXCEPT ![t] = Unreadable])

-----------------------------------------------------------------------------
(* MetaPromptGenerator.__init__ and _load_datasets *)

NextLoadPc(t) ==
    LET i == CHOOSE j \in DOMAIN Tables : Tables[j] = t
    IN  IF i = Len(Tables) THEN "ready" ELSE Tables[i + 1]

\* self.<t>_df = df
Assign(tabs, t, df) == [x \in DOMAIN tabs \cup {t} |-> IF x = t THEN df ELSE tabs[x]]

\* except Exception: every table becomes an empty DataFrame
LoadErrorHandler(tabs, t) == [x \in TableSet |-> EmptyDataFrame]

\* the data directory is checked and created; os.makedirs is outside the try
Construct ==
    /\ loadPc = "new"
    /\ \/ /\ dirExists
          /\ loadPc' = Tables[1]
          /\ UNCHANGED dirExists
       \/ /\ ~dirExists
          /\ \E created \in BOOLEAN :
                /\ dirExists' = created
                /\ loadPc' = IF created THEN Tables[1] ELSE "init_raised"
    /\ UNCHANGED <<files, dfs, calls, fmtPc, fmtArgs, fmtOut, ext>>

\* one "Load ... data" block of the try
LoadTable(t) ==
    /\ loadPc = t
    /\ IF files[t] = Missing
       THEN /\ dfs' = Assign(dfs, t, EmptyDataFrame)
            /\ loadPc' = NextLoadPc(t)
       ELSE IF files[t] = Unreadable
       THEN /\ dfs' = LoadErrorHandler(dfs, t)
            /\ loadPc' = "ready"
       ELSE /\ dfs' = Assign(dfs, t, ReadCsv(files[t]))
            /\ loadPc' = NextLoadPc(t)
    /\ UNCHANGED <<dirExists, files, calls, fmtPc, fmtArgs, fmtOut, ext>>

-----------------------------------------------------------------------------
(* Direct calls of _format_meta_prompt *)

\* number of arguments that may lack some of their keys at once
MaxPartial == 1

Restrict(d, keys) == [k \in keys |-> d[k]]

SampleRecord(t) == CsvRow(FullColumns(t), 1, "u1")

SampleTransactionInsights ==
    [monthly_spending |-> "100", top_categories |-> <<"Food", "Travel">>,
     large_transactions |-> "1 above the usual amount",
     recurring_payments |-> "1 monthly payment(s)"]

SampleSentimentInsights ==
    [overall_sentiment |-> "negative", financial_interests |-> <<"debt", "investing">>,
     financial_concerns |-> "Worried about debt"]

\* d without one of the keys, or with one key only
KeyVariants(d, keys) ==
    {Restrict(d, DOMAIN d \ {k}) : k \in keys} \cup {Restrict(d, {k}) : k \in DOMAIN d}

RecordChoices(t) ==
    {EmptyDict, SampleRecord(t)} \cup KeyVariants(SampleRecord(t), Fields(t))

TransactionInsightChoices ==
    {EmptyDict, SampleTransactionInsights}
        \cup KeyVariants(SampleTransactionInsights, DOMAIN SampleTransactionInsights)
        \cup {[SampleTransactionInsights EXCEPT !.recurring_payments = ""],
              [SampleTransactionInsights EXCEPT !.top_categories = << >>],
              [SampleTransactionInsights EXCEPT !.top_categories = <<"Food", NaN>>]}

SentimentInsightChoices ==
    {EmptyDict, SampleSentimentInsights}
        \cup KeyVariants(SampleSentimentInsights, DOMAIN SampleSentimentInsights)
        \cup {[SampleSentimentInsights EXCEPT !.financial_interests = << >>]}

NoArgs ==
    [demographics |-> EmptyDict, account |-> EmptyDict, credit |-> EmptyDict,
     investments |-> EmptyDict, transaction_insights |-> EmptyDict,
     sentiment_insights |-> EmptyDict]

Complete ==
    [demographics |-> SampleRecord("demographic"), account |-> SampleRecord("account"),
     credit |-> SampleRecord("credit"), investments |-> SampleRecord("investment"),
     transaction_insights |-> SampleTransactionInsights,
     sentiment_insights |-> SampleSentimentInsights]

Slots == DOMAIN NoArgs

FormatArgChoices ==
    { args \in [demographics : RecordChoices("demographic"),
                account : RecordChoices("account"),
                credit : RecordChoices("credit"),
                investments : RecordChoices("investment"),
                transaction_insights : TransactionInsightChoices,
                sentiment_insights : SentimentInsightChoices] :
        Cardinality({k \in Slots : args[k] # EmptyDict /\ args[k] # Complete[k]}) <= MaxPartial }

FormatCall ==
    /\ fmtPc = "idle"
    /\ \E args \in FormatArgChoices :
          /\ fmtArgs' = args
          /\ IF FormatRaises(args.transaction_insights, args.sentiment_insights)
             THEN fmtPc' = "raised" /\ fmtOut' = << >>
             ELSE /\ fmtPc' = "returned"
                  /\ fmtOut' = FormatMetaPrompt(args.demographics, args.account, args.credit,
                                                args.investments, args.transaction_insights,
                                                args.sentiment_insights)
    /\ UNCHANGED <<dirExists, files, loadPc, dfs, calls, ext>>

FormatDone ==
    /\ fmtPc \in {"returned", "raised"}
    /\ fmtPc' = "idle"
    /\ fmtArgs' = NoArgs
    /\ fmtOut' = << >>
    /\ UNCHANGED <<dirExists, files, loadPc, dfs, calls, ext>>

-----------------------------------------------------------------------------
(* Repeated calls of _format_meta_prompt *)

\* number of renderer calls whose arguments and results are kept
MaxLog == 3

\* no argument, every argument, or one argument alone
RepeatArgChoices ==
    {NoArgs, Complete} \cup {[NoArgs EXCEPT ![k] = Complete[k]] : k \in Slots}

\* one more call of the renderer, its arguments and result kept
RepeatCall ==
    /\ fmtPc = "idle"
    /\ Len(fmtLog) < MaxLog
    /\ \E args \in RepeatArgChoices :
          LET out == FormatMetaPrompt(args.demographics, args.account, args.credit,
                                      args.investments, args.transaction_insights,
                                      args.sentiment_insights)
          IN  /\ fmtArgs' = args
              /\ fmtOut' = out
              /\ fmtPc' = "returned"
              /\ fmtLog' = Append(fmtLog, [args |-> args, out |-> out])
    /\ UNCHANGED <<dirExists, files, loadPc, dfs, calls, chat, mock, mongo>>

-----------------------------------------------------------------------------
(* simple_chat_endpoint (app/main.py) *)

Requests == {"r1", "r2"}

Messages == {"hi", "how do I save for retirement"}

\* the uploaded file: none, one that reads and decodes, one whose read()
\* raises, one that Image.open cannot decode
Images == {"none", "valid", "unreadable", "undecodable"}

\* what awaiting chatbot.process_message gives: an exception, a
\* (response, recommendations) pair, or a value that is no such pair
Replies ==
    {[kind |-> "raises"], [kind |-> "malformed"]} \cup
    [kind : {"pair"},
     response : {"Consider an index fund."},
     recommendations : {<< >>, <<"Savings account">>}]

ChatResponse(response, recommendations) ==
    [response |-> response, recommendations |-> recommendations]

\* the response of the handler around the chatbot call
ChatbotApology ==
    ChatResponse("I apologize, but I encountered an issue processing your message. I'm a financial advisor chatbot that can help with investment advice, savings strategies, and debt management. Could you try asking in a different way?", << >>)

\* the response of the outermost handler
EndpointApology ==
    ChatResponse("I apologize, but something went wrong. Please try again later.", << >>)

IdleRequest ==
    [pc |-> "idle", message |-> "", image |-> "none", pil_image |-> "None",
     called |-> << >>, reply |-> << >>, result |-> << >>]

\* the image handler falling through to the outermost handler
ImageErrorToEndpoint(req) == [req EXCEPT !.pc = "returned", !.result = EndpointApology]

\* except Exception around read() and Image.open: continue without image
ImageErrorHandler(req) == [req EXCEPT !.pc = "process"]

UnchangedButChat == UNCHANGED <<dirExists, files, loadPc, dfs, calls, fmtPc, fmtArgs, fmtOut, fmtLog, mock, mongo>>

Receive(r, message, image) ==
    /\ chat[r].pc = "idle"
    /\ chat' = [chat EXCEPT ![r] = [IdleRequest EXCEPT !.pc = "image", !.message = message,
                                                        !.image = image]]
    /\ UnchangedButChat

\* "Process image if provided"
StepImage(r) ==
    /\ chat[r].pc = "image"
    /\ chat' = [chat EXCEPT ![r] =
           IF @.image = "none" THEN [@ EXCEPT !.pc = "process"]
           ELSE IF @.image \in {"unreadable", "undecodable"} THEN ImageErrorHandler(@)
           ELSE [@ EXCEPT !.pc = "process", !.pil_image = "PIL"]]
    /\ UnchangedButChat

\* chatbot.process_message(...) is called and awaited
StepProcessMessage(r) ==
    /\ chat[r].pc = "process"
    /\ chat' = [chat EXCEPT ![r] =
           [@ EXCEPT !.pc = "awaiting",
                     !.called = [user_id |-> "guest-user", message |-> chat[r].message,
                                 image |-> chat[r].pil_image]]]
    /\ UnchangedButChat

\* the chatbot answers: the ChatResponse is built, or the handler answers
StepReply(r) ==
    /\ chat[r].pc = "awaiting"
    /\ \E reply \in Replies :
          chat' = [chat EXCEPT ![r] =
              [@ EXCEPT !.pc = "returned", !.reply = reply,
                        !.result = IF reply.kind = "pair"
                                   THEN ChatResponse(reply.response, reply.recommendations)
                                   ELSE ChatbotApology]]
    /\ UnchangedButChat

RequestDone(r) ==
    /\ chat[r].pc = "returned"
    /\ chat' = [chat EXCEPT ![r] = IdleRequest]
    /\ UnchangedButChat

-----------------------------------------------------------------------------
(* MockCollection (app/database/mongodb.py) *)

\* number of documents a collection holds
MaxDocs == 2

DocKeys == {"_id", "user_id"}

DocValues == {"1", "2"}

\* the documents and the queries: dicts over some of the keys
Docs == UNION {[ks -> DocValues] : ks \in SUBSET DocKeys}

\* an update is a dict of fields or {"$set": fields}
Updates == Docs \cup {[k \in {"$set"} |-> d] : d \in Docs}

\* the loop body of find_one: every key of the query is in the item with
\* the value of the query
Matches(item, query) ==
    \A k \in DOMAIN query : k \in DOMAIN item /\ item[k] = query[k]

\* the position in data of the item find_one returns, 0 when it returns None
FindOne(data, query) ==
    IF ~Truthy(query)
    THEN IF data # << >> THEN 1 ELSE 0
    ELSE IF \E i \in DOMAIN data : Matches(data[i], query)
         THEN CHOOSE i \in DOMAIN data :
                  /\ Matches(data[i], query)
                  /\ \A j \in 1..(i - 1) : ~Matches(data[j], query)
         ELSE 0

\* update['$set'] under the $set operator, the update itself otherwise
UpdateFields(update) ==
    IF "$set" \in DOMAIN update THEN update["$set"] ELSE update

\* d after "for key, value in e.items(): d[key] = value", also d.update(e)
Merge(d, e) ==
    [k \in DOMAIN d \cup DOMAIN e |-> IF k \in DOMAIN e THEN e[k] ELSE d[k]]

MockUpdateResult(matched_count, modified_count, upserted_id) ==
    [matched_count |-> matched_count, modified_count |-> modified_count,
     upserted_id |-> upserted_id]

MockInsertResult(inserted_id) == [inserted_id |-> inserted_id]

\* the name MockUpdateResult read in a branch that has not bound it
UnboundLocalError == [raised |-> "UnboundLocalError"]

\* a collection constructed without data, no call made on it yet
NewCollection ==
    [data |-> << >>, pc |-> "idle", op |-> "none", query |-> << >>, update |-> << >>,
     upsert |-> FALSE, before |-> << >>, result |-> << >>]

UnchangedButMock == UNCHANGED <<dirExists, files, loadPc, dfs, calls, fmtPc, fmtArgs, fmtOut, fmtLog, chat, mongo>>

InsertOne(document) ==
    /\ mock.pc = "idle"
    /\ Len(mock.data) < MaxDocs
    /\ mock' = [NewCollection EXCEPT
                   !.data = Append(mock.data, document),
                   !.pc = "returned", !.op = "insert_one", !.update = document,
                   !.before = mock.data,
                   !.result = MockInsertResult(Get(document, "_id", "mock_id"))]
    /\ UnchangedButMock

\* find_one and insert_one never suspend, so the call runs in one piece
UpdateOne(query, update, upsert) ==
    /\ mock.pc = "idle"
    /\ LET data == mock.data
           i == FindOne(data, query)
           call == [NewCollection EXCEPT !.op = "update_one", !.query = query,
                                         !.update = update, !.upsert = upsert,
                                         !.before = data]
       IN  IF i # 0 /\ Truthy(data[i])
           THEN mock' = [call EXCEPT
                            !.data = [data EXCEPT ![i] = Merge(@, UpdateFields(update))],
                            !.pc = "returned",
                            !.result = MockUpdateResult(1, 1, "None")]
           ELSE IF upsert
           THEN /\ Len(data) < MaxDocs
                /\ mock' = [call EXCEPT
                               !.data = Append(data, Merge(query, UpdateFields(update))),
                               !.pc = "raised", !.result = UnboundLocalError]
           ELSE mock' = [call EXCEPT !.data = data, !.pc = "raised",
                                     !.result = UnboundLocalError]
    /\ UnchangedButMock

\* the caller has the result or the exception; the collection keeps its data
MockDone ==
    /\ mock.pc \in {"returned", "raised"}
    /\ mock' = [NewCollection EXCEPT !.data = mock.data]
    /\ UnchangedButMock

-----------------------------------------------------------------------------
(* The connection globals of app/database/mongodb.py and the coroutines    *)
(* connect_to_mongo and get_database, with settings.ENABLE_MOCK_DATA off.  *)
(* A handle is the number of the connect_to_mongo call that made it.       *)

Tasks == {"p1", "p2"}

\* number of connect_to_mongo calls
MaxAttempts == 3

\* the value None of a global or of a return value
NoHandle == 0

IdleTask == [pc |-> "idle", entry |-> "none", own |-> NoHandle, got |-> NoHandle, tested |-> FALSE]

\* the module as imported: db_client = None, db = None
Imported ==
    [db_client |-> NoHandle, db |-> NoHandle, attempts |-> 0, pinged |-> {}, failed |-> {},
     tasks |-> [t \in Tasks |-> IdleTask]]

UnchangedButMongo == UNCHANGED <<dirExists, files, loadPc, dfs, calls, fmtPc, fmtArgs, fmtOut, fmtLog, chat, mock>>

\* connect_to_mongo up to its first await: the client and the database
\* handle are made and bound to the globals, the ping is sent
StartConnect(m, t, entry) ==
    LET h == m.attempts + 1
    IN  [m EXCEPT !.attempts = h, !.db_client = h, !.db = h,
                  !.tasks[t] = [IdleTask EXCEPT !.pc = "ping", !.entry = entry, !.own = h]]

\* connect_to_mongo returns v to task t: to the caller itself, or to
\* get_database, which binds it to db and returns db
ConnectReturns(m, t, v) ==
    [m EXCEPT !.db = IF m.tasks[t].entry = "get_database" THEN v ELSE @,
              !.tasks[t] = [@ EXCEPT !.pc = "returned", !.got = v, !.tested = v \in m.pinged]]

\* the except branch: db = None, return None
ConnectFails(m, t) ==
    ConnectReturns([m EXCEPT !.db = NoHandle, !.failed = @ \cup {m.tasks[t].own}], t, NoHandle)

GetDatabase(t) ==
    /\ mongo.tasks[t].pc = "idle"
    /\ IF mongo.db # NoHandle
       THEN mongo' = [mongo EXCEPT !.tasks[t] =
                         [IdleTask EXCEPT !.pc = "returned", !.entry = "get_database",
                                          !.got = mongo.db,
                                          !.tested = mongo.db \in mongo.pinged]]
       ELSE /\ mongo.attempts < MaxAttempts
            /\ mongo' = StartConnect(mongo, t, "get_database")
    /\ UnchangedButMongo

ConnectToMongo(t) ==
    /\ mongo.tasks[t].pc = "idle"
    /\ mongo.attempts < MaxAttempts
    /\ mongo' = StartConnect(mongo, t, "connect_to_mongo")
    /\ UnchangedButMongo

\* the ping is over: on success db is read again for list_collection_names,
\* which raises AttributeError on None
PingDone(t) ==
    /\ mongo.tasks[t].pc = "ping"
    /\ \E ok \in BOOLEAN :
          mongo' = IF ~ok THEN ConnectFails(mongo, t)
                   ELSE LET m == [mongo EXCEPT !.pinged = @ \cup {mongo.tasks[t].own}]
                        IN  IF m.db = NoHandle THEN ConnectFails(m, t)
                            ELSE [m EXCEPT !.tasks[t].pc = "list"]
    /\ UnchangedButMongo

\* the listing is over: on success "return db" reads the global
ListDone(t) ==
    /\ mongo.tasks[t].pc = "list"
    /\ \E ok \in BOOLEAN :
          mongo' = IF ok THEN ConnectReturns(mongo, t, mongo.db) ELSE ConnectFails(mongo, t)
    /\ UnchangedButMongo

TaskDone(t) ==
    /\ mongo.tasks[t].pc = "returned"
    /\ mongo' = [mongo EXCEPT !.tasks[t] = IdleTask]
    /\ UnchangedButMongo

-----------------------------------------------------------------------------
(* Specifications *)

Init ==
    /\ dirExists = FALSE
    /\ files = [t \in TableSet |-> Missing]
    /\ loadPc = "new"
    /\ dfs = << >>
    /\ calls = [c \in Callers |-> IdleCall]
    /\ fmtPc = "idle"
    /\ fmtArgs = NoArgs
    /\ fmtOut = << >>
    /\ fmtLog = << >>
    /\ chat = [r \in Requests |-> IdleRequest]
    /\ mock = NewCollection
    /\ mongo = Imported

Next ==
    \/ \E t \in TableSet : EtlCreateFile(t)
    \/ \E t \in TableSet : EtlAppendRow(t)
    \/ \E t \in TableSet : EtlCreateHeaderOnly(t)
    \/ \E t \in TableSet : EtlCreateUnreadable(t)
    \/ Construct
    \/ \E t \in TableSet : LoadTable(t)
    \/ \E c \in Callers, u \in Users : Call(c, u)
    \/ \E c \in Callers : StepGetUserData(c)
    \/ \E c \in Callers : StepTransactionInsights(c)
    \/ \E c \in Callers : StepSentimentInsights(c)
    \/ \E c \in Callers : StepFormat(c)
    \/ \E c \in Callers : Return(c)

\* the generator from the filling of the data directory to its calls
Spec == Init /\ [][Next]_vars

FormatNext == FormatCall \/ FormatDone

\* the renderer called on its own
FormatSpec == Init /\ [][FormatNext]_vars

RepeatNext == RepeatCall \/ FormatDone

\* the renderer called again and again, its calls kept
RepeatSpec == Init /\ [][RepeatNext]_vars

ChatNext ==
    \/ \E r \in Requests, message \in Messages, image \in Images : Receive(r, message, image)
    \/ \E r \in Requests : StepImage(r)
    \/ \E r \in Requests : StepProcessMessage(r)
    \/ \E r \in Requests : StepReply(r)
    \/ \E r \in Requests : RequestDone(r)

\* requests to /simple_chat, served concurrently
ChatSpec == Init /\ [][ChatNext]_vars

MockNext ==
    \/ \E document \in Docs : InsertOne(document)
    \/ \E query \in Docs, update \in Updates, upsert \in BOOLEAN : UpdateOne(query, update, upsert)
    \/ MockDone

\* calls on one MockCollection, one after the other
MockSpec == Init /\ [][MockNext]_vars

MongoNext ==
    \/ \E t \in Tasks : GetDatabase(t)
    \/ \E t \in Tasks : ConnectToMongo(t)
    \/ \E t \in Tasks : PingDone(t)
    \/ \E t \in Tasks : ListDone(t)
    \/ \E t \in Tasks : TaskDone(t)

\* tasks of one event loop calling get_database and connect_to_mongo
MongoSpec == Init /\ [][MongoNext]_vars

-----------------------------------------------------------------------------
(* Reading a rendered text *)

Headers ==
    <<"## Demographic Profile", "## Financial Profile", "## Investment Profile",
      "## Spending Patterns", "## Social Media Insights">>

HeaderSet == {Headers[i] : i \in DOMAIN Headers}

HeaderRank(h) == CHOOSE i \in DOMAIN Headers : Headers[i] = h

Lines(text) == {text[i] : i \in DOMAIN text}

\* the header lines of a text, in the order they appear
HeadersOf(text) == SelectSeq(text, LAMBDA line : line \in HeaderSet)

\* the lines of the section whose header is at position i, header included
RECURSIVE SectionEnd(_, _)
SectionEnd(text, i) ==
    IF i = Len(text) \/ text[i + 1] = "" THEN i ELSE SectionEnd(text, i + 1)

SectionAt(text, i) == SubSeq(text, i, SectionEnd(text, i))

\* the section of header h, or the empty sequence
SectionOf(text, h) ==
    IF h \in Lines(text)
    THEN SectionAt(text, CHOOSE i \in DOMAIN text : text[i] = h)
    ELSE << >>

-----------------------------------------------------------------------------
(* C1: the headers of a rendered text appear in the fixed order Demographic, *)
(* Financial, Investment, Spending Patterns, Social Media Insights, each at  *)
(* most once, and exactly one blank line separates consecutive sections.     *)

HeadersInOrder(text) ==
    LET hs == HeadersOf(text)
    IN  \A i, j \in DOMAIN hs : i < j => HeaderRank(hs[i]) < HeaderRank(hs[j])

OneBlankLineBetweenSections(text) ==
    /\ text[1] \in HeaderSet
    /\ \A i \in DOMAIN text :
          /\ text[i] = "" => /\ 1 < i /\ i < Len(text)
                             /\ text[i - 1] # ""
                             /\ text[i + 1] \in HeaderSet
          /\ (text[i] \in HeaderSet /\ i > 1) => text[i - 1] = ""

C1_SectionOrder ==
    (fmtPc = "returned" /\ fmtOut # RendererFallback) =>
        /\ HeadersInOrder(fmtOut)
        /\ OneBlankLineBetweenSections(fmtOut)

C1_Witness ==
    /\ fmtPc = "returned"
    /\ HeadersOf(fmtOut) = Headers
    /\ Cardinality({i \in DOMAIN fmtOut : fmtOut[i] = ""}) = 4

-----------------------------------------------------------------------------
(* C5: with all six arguments empty _format_meta_prompt returns the "New     *)
(* financial advisor user ..." sentence, and with any argument non-empty it  *)
(* never returns that sentence.                                              *)

AllArgsEmpty(args) == \A k \in Slots : ~Truthy(args[k])

C5_RendererFallback ==
    fmtPc = "returned" => (AllArgsEmpty(fmtArgs) <=> fmtOut = RendererFallback)

C5_Witness == fmtPc = "returned" /\ AllArgsEmpty(fmtArgs) /\ fmtOut = RendererFallback

-----------------------------------------------------------------------------
(* Reading the tables *)

\* the positions of the rows of user_id in a table
MatchIdx(df, user_id) ==
    {i \in DOMAIN df.rows : "user_id" \in DOMAIN df.rows[i] /\ df.rows[i]["user_id"] = user_id}

\* the k-th smallest element of a set of positions
KthSmallest(idx, k) == CHOOSE i \in idx : Cardinality({j \in idx : j <= i}) = k

SingularTables == {"demographic", "account", "credit", "investment"}

SlotOf(t) ==
    CASE t = "demographic" -> "demographics"
      [] t = "account"     -> "account"
      [] t = "credit"      -> "credit"
      [] t = "investment"  -> "investments"
      [] t = "transaction" -> "transactions"
      [] t = "sentiment"   -> "sentiment"

\* the tables a section draws on, by the position of its header
SourceTables(i) ==
    CASE i = 1 -> {"demographic"}
      [] i = 2 -> {"account", "credit"}
      [] i = 3 -> {"investment"}
      [] i = 4 -> {"transaction"}
      [] i = 5 -> {"sentiment"}

Returned(c) == calls[c].pc = "returned"

-----------------------------------------------------------------------------
(* C2: a header is in the text generate_meta_prompt renders exactly when    *)
(* the user has a row in a table of that section (account or credit for the *)
(* Financial Profile); a user with an investment row only gets the single   *)
(* header "## Investment Profile".                                          *)

C2_HeaderIffSource ==
    \A c \in Callers :
        (Returned(c) /\ ~GenerateRaises(dfs, calls[c].user_id)) =>
            \A i \in DOMAIN Headers :
                Headers[i] \in Lines(calls[c].result)
                    <=> \E t \in SourceTables(i) : MatchIdx(dfs[t], calls[c].user_id) # {}

C2_Witness ==
    \E c \in Callers :
        /\ Returned(c)
        /\ \A t \in TableSet : MatchIdx(dfs[t], calls[c].user_id) # {} <=> t = "investment"
        /\ HeadersOf(calls[c].result) = <<"## Investment Profile">>
        /\ Len(calls[c].result) = 6

-----------------------------------------------------------------------------
(* C3: generate_meta_prompt never lets an exception out: when the lookup,   *)
(* an insight extraction or the rendering raises, the call returns the      *)
(* "Financial advisor user ..." sentence.                                   *)

C3_NeverPropagates ==
    \A c \in Callers :
        /\ calls[c].pc # "raised"
        /\ (Returned(c) /\ GenerateRaises(dfs, calls[c].user_id))
               => calls[c].result = OrchestratorFallback

C3_Witness ==
    \E c \in Callers :
        /\ Returned(c)
        /\ GetUserDataRaises(dfs)
        /\ calls[c].result = OrchestratorFallback

-----------------------------------------------------------------------------
(* C4: for a user without a row in any of the six tables the call returns   *)
(* one of the two fallback sentences and no section header.                 *)

NoRowsFor(user_id) == \A t \in TableSet : MatchIdx(dfs[t], user_id) = {}

C4_NoDataFallback ==
    \A c \in Callers :
        (Returned(c) /\ NoRowsFor(calls[c].user_id)) =>
            /\ calls[c].result \in {OrchestratorFallback, RendererFallback}
            /\ HeadersOf(calls[c].result) = << >>

C4_Witness ==
    \E c \in Callers :
        /\ Returned(c)
        /\ NoRowsFor(calls[c].user_id)
        /\ \E t \in SingularTables : ~IsEmpty(dfs[t])
        /\ calls[c].result = RendererFallback

-----------------------------------------------------------------------------
(* C9: _get_user_data returns, for a table with one record per user, the    *)
(* first row of the user in file order (an empty dict without one), and for *)
(* the transaction and sentiment tables the rows of the user, all of them   *)
(* and only them, in file order.                                            *)

AfterLookup(c) == calls[c].pc \in {"transactions", "sentiment", "format"}

C9_FirstMatchInOrder ==
    \A c \in Callers : AfterLookup(c) =>
        \A t \in TableSet :
            LET idx == MatchIdx(dfs[t], calls[c].user_id)
                got == calls[c].user_data[SlotOf(t)]
            IN  IF t \in SingularTables
                THEN got = IF idx = {} THEN EmptyDict ELSE dfs[t].rows[KthSmallest(idx, 1)]
                ELSE /\ Len(got) = Cardinality(idx)
                     /\ \A k \in DOMAIN got : got[k] = dfs[t].rows[KthSmallest(idx, k)]

C9_Witness ==
    \E c \in Callers, t \in SingularTables :
        /\ AfterLookup(c)
        /\ Cardinality(MatchIdx(dfs[t], calls[c].user_id)) >= 2
        /\ calls[c].user_data[SlotOf(t)] = dfs[t].rows[1]
        /\ dfs[t].rows[1] # dfs[t].rows[2]

-----------------------------------------------------------------------------
(* C10: once the generator is constructed no step of a call changes a       *)
(* table, and whatever the interleaving of the calls in progress each call  *)
(* returns the text it returns when run alone on the tables.                *)

C10_ConcurrentReads ==
    /\ [][loadPc = "ready" => dfs' = dfs]_vars
    /\ [](\A c \in Callers :
            Returned(c) => calls[c].result = GenerateMetaPrompt(dfs, calls[c].user_id))

C10_Witness ==
    /\ Returned("c1")
    /\ calls["c2"].pc = "format"
    /\ calls["c1"].user_id # calls["c2"].user_id
    /\ calls["c1"].result # GenerateMetaPrompt(dfs, calls["c2"].user_id)
    /\ HeadersOf(calls["c1"].result) # << >>

-----------------------------------------------------------------------------
(* C8: a file that cannot be read empties its own table only: every other   *)
(* table holds the data of its file once _load_datasets is over.            *)

C8_IndependentTables ==
    loadPc = "ready" =>
        \A t \in TableSet : IsCsv(files[t]) => dfs[t] = ReadCsv(files[t])

-----------------------------------------------------------------------------
(* The field lines of the sections *)

Field(slot, key, label, pre, post, placeholder) ==
    [slot |-> slot, key |-> key, label |-> label, pre |-> pre, post |-> post,
     placeholder |-> placeholder]

\* the lines showing one key: argument, key, label, marker before and after
\* the value, text shown for an absent key
FieldLines ==
    {Field("demographics", "age", "Age", "", "", "Unknown"),
     Field("demographics", "gender", "Gender", "", "", "Unknown"),
     Field("demographics", "occupation", "Occupation", "", "", "Unknown"),
     Field("demographics", "annual_income", "Annual Income", "$", "", "Unknown"),
     Field("demographics", "education_level", "Education", "", "", "Unknown"),
     Field("account", "account_type", "Account Type", "", "", "Unknown"),
     Field("account", "account_balance", "Account Balance", "$", "", "Unknown"),
     Field("account", "savings_balance", "Savings Balance", "$", "", "Unknown"),
     Field("account", "account_opening_date", "Account Opened", "", "", "Unknown"),
     Field("credit", "credit_score", "Credit Score", "", "", "Unknown"),
     Field("credit", "outstanding_debt", "Outstanding Debt", "$", "", "Unknown"),
     Field("credit", "credit_utilization", "Credit Utilization", "", "%", "Unknown"),
     Field("credit", "payment_history", "Payment History", "", "", "Unknown"),
     Field("investments", "risk_tolerance", "Risk Tolerance", "", "", "Unknown"),
     Field("investments", "investment_goals", "Investment Goals", "", "", "Unknown"),
     Field("investments", "current_investments", "Current Investments", "$", "", "Unknown"),
     Field("investments", "retirement_savings", "Retirement Savings", "$", "", "Unknown"),
     Field("investments", "investment_preferences", "Investment Preferences", "", "", "Unknown"),
     Field("transaction_insights", "monthly_spending", "Monthly Spending", "$", "", "Unknown"),
     Field("transaction_insights", "large_transactions", "Recent Large Transactions", "", "", "None"),
     Field("sentiment_insights", "overall_sentiment", "Overall Sentiment", "", "", "Unknown"),
     Field("sentiment_insights", "financial_concerns", "Recent Concerns", "", "", "None")}

HeaderOfSlot(slot) ==
    CASE slot = "demographics" -> Headers[1]
      [] slot \in {"account", "credit"} -> Headers[2]
      [] slot = "investments" -> Headers[3]
      [] slot = "transaction_insights" -> Headers[4]
      [] slot = "sentiment_insights" -> Headers[5]

\* the line of a present key: "Label: value" with the marker of the field
PresentLine(f, d) == f.label \o ": " \o f.pre \o d[f.key] \o f.post

HasRecurring(transaction_insights) == Get(transaction_insights, "recurring_payments", "") # ""

-----------------------------------------------------------------------------
(* C6: in a rendered section the line of an absent key reads               *)
(* "Label: Unknown", and the line of a present key reads "Label: value"     *)
(* with "$" or "%" applied to present currency and percentage values only.  *)
(* Stated of the lines the code gives the placeholder "Unknown".            *)

C6_AbsentIsUnknown ==
    fmtPc = "returned" =>
        \A f \in {g \in FieldLines : g.placeholder = "Unknown"} :
            Truthy(fmtArgs[f.slot]) =>
                (IF f.key \in DOMAIN fmtArgs[f.slot]
                 THEN PresentLine(f, fmtArgs[f.slot])
                 ELSE f.label \o ": Unknown")
                    \in Lines(SectionOf(fmtOut, HeaderOfSlot(f.slot)))

\* the header and the four lines of each non-empty record of the section
FinanceLength(args) ==
    1 + (IF Truthy(args.account) THEN 4 ELSE 0) + (IF Truthy(args.credit) THEN 4 ELSE 0)

-----------------------------------------------------------------------------
(* C7 as claimed: every rendered section has all its field lines, so each   *)
(* section has one number of lines whatever its non-empty source holds.     *)

-----------------------------------------------------------------------------
-----------------------------------------------------------------------------
(* C12: whatever fails during initialization, a data directory that cannot  *)
(* be created included, the construction of MetaPromptGenerator completes,  *)
(* with all six tables assigned, and a call made afterwards returns a text. *)
C12_ConstructionCompletes ==
    /\ loadPc # "init_raised"
    /\ loadPc = "ready" => DOMAIN dfs = TableSet
    /\ \A c \in Callers : Returned(c) => calls[c].result # << >>

-----------------------------------------------------------------------------
(* C13: simple_chat_endpoint never raises and returns a ChatResponse; when   *)
(* the image cannot be read or decoded the chatbot is still called, with     *)
(* user_id "guest-user", the message and image None; when the chatbot call   *)
(* fails the response is the fixed apology with no recommendation.           *)
C13_AlwaysChatResponse ==
    \A r \in Requests :
        LET req == chat[r]
        IN  /\ req.pc \in {"idle", "image", "process", "awaiting", "returned"}
            /\ req.pc = "returned" =>
                   /\ DOMAIN req.result = {"response", "recommendations"}
                   /\ req.image \in {"unreadable", "undecodable"} =>
                          req.called = [user_id |-> "guest-user", message |-> req.message,
                                        image |-> "None"]
                   /\ req.called # << >> /\ req.reply.kind = "raises" =>
                          req.result = ChatbotApology

C13_Witness ==
    \E r \in Requests :
        /\ chat[r].pc = "returned"
        /\ chat[r].image = "undecodable"
        /\ chat[r].called.image = "None"
        /\ chat[r].reply.kind = "raises"
        /\ chat[r].result = ChatbotApology
        /\ chat[r].result.recommendations = << >>

-----------------------------------------------------------------------------
(* C14: update_one with a query that matches no document does not raise and *)
(* returns matched_count 0 and modified_count 0; without upsert the data is *)
(* unchanged, with upsert one document, the query merged with the update    *)
(* fields, is appended and the result has an upserted id.                   *)
C14_NoMatchCompletes ==
    (mock.op = "update_one" /\ FindOne(mock.before, mock.query) = 0) =>
        /\ mock.pc # "raised"
        /\ mock.pc = "returned" =>
               /\ mock.result.matched_count = 0
               /\ mock.result.modified_count = 0
               /\ ~mock.upsert => mock.data = mock.before
               /\ mock.upsert =>
                      /\ mock.data = Append(mock.before,
                                            Merge(mock.query, UpdateFields(mock.update)))
                      /\ mock.result.upserted_id # "None"

-----------------------------------------------------------------------------
(* C15: whatever the interleaving of get_database and connect_to_mongo, a   *)
(* caller receives None or a handle whose ping had succeeded, and the       *)
(* global handle is never the handle of a failed attempt.                   *)
C15_OnlyTestedHandles ==
    /\ \A t \in Tasks :
           (mongo.tasks[t].pc = "returned" /\ mongo.tasks[t].got # NoHandle)
               => mongo.tasks[t].tested
    /\ mongo.db \notin mongo.failed

====
